---- MODULE Spec2Model ----
(***************************************************************************)
(* Oral Assessment Prototype: the browser client (App.jsx: capture         *)
(* lifecycle, feature series, upload/transcribe sessions, transcript       *)
(* analyzer) and the serverless transcription handlers.                    *)
(*                                                                         *)
(* Strings are sequences of one-character strings, so that trimming,       *)
(* splitting and matching are computed as the code computes them.          *)
(***************************************************************************)
EXTENDS Integers, Sequences, FiniteSets, TLC

(* ------------------------------ bounds --------------------------------- *)
\* startRecording invocations (each creates one MediaRecorder, one interval
\* timer and one analyzeLoop chain of its own)
MaxStarts == 2
\* file uploads through the <input type="file">
MaxFiles == 2
\* animation frames analysed by analyzeLoop
MaxFrames == 302
\* pieces a probe transcript is written with
MaxPieces == 3
\* bytes in a request's payload
MaxPayload == 2
\* the history counters of calls count up to this and stay there
CallsTracked == 2
\* lines in the text the question provider answers with
MaxLines == 5
\* characters in a token whose syllables are counted
MaxTokenLen == 3

(* ------------------------- program constants --------------------------- *)
\* if (s + 1 >= 600)  -- the 10 minute cap
CapSeconds == 600
\* if (volHistoryRef.current.length > 300) ... shift()
HistoryCap == 300

NoRef == 0
Starts == 1..MaxStarts
\* session ids: a recorder's upload has the recorder's id, file uploads follow
Sessions == 1..(MaxStarts + MaxFiles)
FileSession(k) == MaxStarts + k

Null == <<>>
Some(r) == <<r>>

VARIABLES
  micApi,            \* environment: "ok" | "insecure" | "unavailable"
  permissionDenied,  \* useState(false)
  recording,         \* useState(false)
  uiRecording,       \* the value of `recording` in the committed render
  seconds,           \* useState(0)
  nextStart,         \* number of startRecording invocations so far
  startPc,           \* per invocation: "idle" | "awaitMic" | "done"
  mrState,           \* MediaRecorder.state per recorder: "none"|"recording"|"inactive"
  stopEvent,         \* per recorder: dataavailable/stop events queued by mr.stop()
  mrStops,           \* per recorder: how many times mr.stop() was called (history)
  uploadsStarted,    \* per recorder: how many uploads its onstop started (history)
  stopCalls,         \* stopRecording invocations since the latest mr.start() (history)
  timerActive,       \* per interval timer: still scheduled
  rafPending,        \* per analyzeLoop chain: a requestAnimationFrame is pending
  ctxClosed,         \* per AudioContext: close() was called
  mediaRecorderRef, timerRef, rafRef, audioCtxRef, analyserRef

captureVars == <<micApi, permissionDenied, recording, uiRecording, seconds,
                 nextStart, startPc, mrState, stopEvent, mrStops, uploadsStarted,
                 stopCalls, timerActive, rafPending, ctxClosed,
                 mediaRecorderRef, timerRef, rafRef, audioCtxRef, analyserRef>>

\* audio analysis series (useRef([]))
VARIABLES
  volHistoryRef,     \* Loudness Series
  pitchHistoryRef,   \* Pitch Series
  volPushes,         \* loudness samples pushed since the series was emptied (history)
  pitchPushes        \* pitch samples pushed since the series was emptied (history)

seriesVars == <<volHistoryRef, pitchHistoryRef, volPushes, pitchPushes>>

\* upload / transcribe sessions (uploadAndTranscribe invocations)
VARIABLES
  audioUrl,          \* useState(null): the session whose blob is shown, or NoRef
  uploading,         \* useState(false)
  transcript,        \* useState("")
  analysis,          \* useState(null): Null or Some(metrics record)
  questions,         \* useState([])
  sessPc,            \* per session: "idle"|"awaitTranscribe"|"awaitQuestions"|"done"
  sessText,          \* per session: the local `text`
  trResult,          \* per session: "none"|"pending"|"ok"|"failed" (history)
  analyzerRuns,      \* per session: analyzeTranscript calls made (history)
  qRequests,         \* per session: /api/questions requests issued (history)
  nextFile,          \* number of file uploads so far
  lastWriter         \* the session whose handler last set transcript, analysis
                     \* or questions; NoRef: none yet or the sample button (history)

sessionVars == <<audioUrl, uploading, transcript, analysis, questions, sessPc,
                 sessText, trResult, analyzerRuns, qRequests, nextFile,
                 lastWriter>>

VARIABLES
  ACADEMIC_SET,      \* window.__ACADEMIC_SET__
  analyzed,          \* the latest analyzeTranscript call: Null or Some of its
                     \* text, the set before it and its result (history)
  closureSeconds     \* per session: the `seconds` of the render whose
                     \* uploadAndTranscribe and analyzeTranscript the session runs

analyzerVars == <<ACADEMIC_SET, analyzed>>

\* one /api/transcribe serverless function and the request it is serving
VARIABLES
  hVariant,          \* which of the repository's transcribe handlers is
                     \* deployed; "none": not deployed yet
  hMethod,           \* req.method
  hSize,             \* bytes in the request's payload
  hPc,               \* "idle" | "awaitBody" | "awaitProvider" | "done"
  hRead,             \* the payload read: "none" | "ok" | "failed"
  hStatus,           \* status of the response sent; 0: none yet
  hProviderCalls     \* speech-to-text requests made for this request (history)

handlerVars == <<hVariant, hMethod, hSize, hPc, hRead, hStatus, hProviderCalls>>

\* the /api/questions serverless function and the request it is serving
VARIABLES
  qhMethod,          \* req.method
  qhPc,              \* "idle" | "awaitBody" | "awaitProvider" | "done"
  qhStatus,          \* status of the response sent; 0: none yet
  qhText,            \* the provider's message content, once it has answered
  qhQuestions        \* the `questions` of the response sent

questionVars == <<qhMethod, qhPc, qhStatus, qhText, qhQuestions>>

\* the callback of tokens.reduce in analyzeTranscript, at its latest token
VARIABLES
  tokenW,            \* the token `w`; "": the callback has not run yet
  tokenSyll          \* Math.max(1, syll): what the callback added for it

syllableVars == <<tokenW, tokenSyll>>

vars == <<captureVars, seriesVars, sessionVars, analyzerVars, closureSeconds,
          handlerVars, questionVars, syllableVars>>

Min(a, b) == IF a < b THEN a ELSE b
Max(a, b) == IF a > b THEN a ELSE b

(* ------------------------------ strings -------------------------------- *)
\* a JS string as the sequence of its characters
\* the sequence with the elements of f, 1..n being its domain
Listed(f, n) == SubSeq(f, 1, n)

\* the characters of a string
Chars(s) == Listed([i \in 1..Len(s) |-> SubSeq(s, i, i)], Len(s))

SEED_ACADEMIC_WORDS ==
  {"metaphor", "simile", "imagery", "symbolism", "tone", "syntax", "diction",
   "motif", "theme", "persona", "narrative", "voice", "irony", "oxymoron",
   "juxtaposition", "alliteration", "assonance", "sibilance", "enjambment",
   "caesura", "stanza", "structure", "form", "context", "connotation",
   "foregrounding", "lexis", "discourse", "semantic", "mood", "rhythm",
   "meter", "prosody", "register", "attitude"}

\* the string of a sequence of characters
RECURSIVE Str(_)
Str(cs) == IF cs = <<>> THEN "" ELSE Head(cs) \o Str(Tail(cs))

\* the characters the model writes in transcripts that JS's \s and trim()
\* treat as white space
WhiteSpace == {" ", "\n", "\t"}

UpperCase == Chars("ABCDEFGHIJKLMNOPQRSTUVWXYZ")
LowerCase == Chars("abcdefghijklmnopqrstuvwxyz")
Letters == {LowerCase[i] : i \in 1..26}
Vowels == {"a", "e", "i", "o", "u", "y"}

\* String.prototype.toLowerCase
LowerOf == [c \in {UpperCase[i] : i \in 1..26} |->
              LowerCase[CHOOSE i \in 1..26 : UpperCase[i] = c]]
LowerChar(c) == IF c \in DOMAIN LowerOf THEN LowerOf[c] ELSE c
ToLowerCase(cs) == Listed([i \in DOMAIN cs |-> LowerChar(cs[i])], Len(cs))

\* String.prototype.trim
Trim(cs) ==
  LET inked == {i \in DOMAIN cs : cs[i] \notin WhiteSpace}
  IN  IF inked = {} THEN <<>>
      ELSE SubSeq(cs, CHOOSE i \in inked : \A j \in inked : i <= j,
                      CHOOSE i \in inked : \A j \in inked : j <= i)

\* s.split(/[seps]+/).filter(Boolean): the maximal runs of characters
\* outside `seps`, in order
SplitRuns(cs, seps) ==
  LET starts == {i \in DOMAIN cs :
                   cs[i] \notin seps /\ (i = 1 \/ cs[i - 1] \in seps)}
      EndOf(i) == CHOOSE j \in i..Len(cs) :
                    /\ \A k \in i..j : cs[k] \notin seps
                    /\ (j = Len(cs) \/ cs[j + 1] \in seps)
      Nth(n) == CHOOSE i \in starts : Cardinality({j \in starts : j < i}) = n - 1
  IN  Listed([n \in 1..Cardinality(starts) |->
                SubSeq(cs, Nth(n), EndOf(Nth(n)))], Cardinality(starts))

\* (text.match(new RegExp(pat, "g")) || []).length for a literal pattern:
\* the matches are found left to right and do not overlap
StartsWithAt(text, pat, i) ==
  /\ i + Len(pat) - 1 <= Len(text)
  /\ \A k \in 1..Len(pat) : text[i + k - 1] = pat[k]
RECURSIVE CountMatches(_, _, _)
CountMatches(text, pat, i) ==
  LET found == {j \in i..Len(text) : StartsWithAt(text, pat, j)}
  IN  IF found = {} THEN 0
      ELSE 1 + CountMatches(text, pat,
                            (CHOOSE j \in found : \A k \in found : j <= k)
                              + Len(pat))

\* arr.reduce((a, b) => a + b, 0)
RECURSIVE SumSeq(_)
SumSeq(ns) ==
  IF ns = <<>> THEN 0
  ELSE IF Len(ns) = 1 THEN ns[1]
  ELSE SumSeq(SubSeq(ns, 1, Len(ns) \div 2))
         + SumSeq(SubSeq(ns, Len(ns) \div 2 + 1, Len(ns)))

\* Math.round(n / d) for n >= 0, d > 0
RoundDiv(n, d) == (2 * n + d) \div (2 * d)

(* ------------------------- transcript analyzer ------------------------- *)
FILLER_WORDS ==
  <<"um", "uh", "like", "you know", "so", "actually", "basically", "right",
    "i mean", "well">>

\* /^[a-z\-]{6,30}$/
MinWordLen == 6
MaxWordLen == 30

\* the "Use sample transcript" button's text, and s1 of runInternalTests
SAMPLE_TRANSCRIPT ==
  "Um, I think the data indicates a significant trend. Like, it suggests a method to analyze variables."
\* s2 of runInternalTests
TEST_TRANSCRIPT_2 ==
  "Well, actually, the theory suggests an approach. Um, it's significant."

\* if (!text): the empty string only
IsEmpty(text) == text = ""

\* if (!text || !text.trim()) return null;
IsBlank(text) == Trim(Chars(text)) = <<>>

\* text.replace(/\n/g, " ").trim()
Normalized(text) ==
  LET cs == Chars(text)
  IN  Trim(Listed([i \in DOMAIN cs |-> IF cs[i] = "\n" THEN " " ELSE cs[i]],
                  Len(cs)))

\* every filler counted where it occurs in the lowered text, single words too
FillerCountBySubstring(lowered, lowTokens) ==
  SumSeq(Listed([f \in DOMAIN FILLER_WORDS |->
                   CountMatches(lowered, Chars(FILLER_WORDS[f]), 1)],
                Len(FILLER_WORDS)))

\* the FILLER_WORDS loop: phrases by regex on the lowered text, single words
\* by equality with the lowered tokens
FillerCount(lowered, lowTokens) ==
  LET CountOf(fw) ==
        IF \E k \in 1..Len(fw) : fw[k] = " "
          THEN CountMatches(lowered, fw, 1)
          ELSE Cardinality({t \in DOMAIN lowTokens : lowTokens[t] = fw})
  IN  SumSeq(Listed([f \in DOMAIN FILLER_WORDS |->
                       CountOf(Chars(FILLER_WORDS[f]))], Len(FILLER_WORDS)))

\* tRaw.toLowerCase().replace(/[^a-z\-]/g, ""), of a lowered token
CleanWord(low) == SelectSeq(low, LAMBDA c : c \in Letters \cup {"-"})

\* the words the expansion loop adds for the lowered tokens
AddedWords(lowTokens) ==
  {Str(CleanWord(lowTokens[t])) :
     t \in {u \in DOMAIN lowTokens :
              Len(CleanWord(lowTokens[u])) \in MinWordLen..MaxWordLen}}

\* /[aeiouy]{1,2}/g on the cleaned word, from position i on
RECURSIVE VowelGroups(_, _)
VowelGroups(w, i) ==
  IF i > Len(w) THEN 0
  ELSE IF w[i] \in Vowels
    THEN 1 + VowelGroups(w, IF i + 1 <= Len(w) /\ w[i + 1] \in Vowels
                              THEN i + 2 ELSE i + 1)
    ELSE VowelGroups(w, i + 1)

\* the syllable estimate of one lowered token
SyllablesOf(low) ==
  LET cleaned == SelectSeq(low, LAMBDA c : c \in Letters)
      m == VowelGroups(cleaned, 1)
      syll == IF cleaned # <<>> /\ cleaned[Len(cleaned)] = "e"
                THEN Max(1, m - 1) ELSE m
  IN  Max(1, syll)

\* normalized.split(/[.!?]+/).map(s => s.trim()).filter(Boolean)
SentencesOf(normalized) ==
  LET pieces == SplitRuns(normalized, {".", "!", "?"})
  IN  SelectSeq(Listed([p \in DOMAIN pieces |-> Trim(pieces[p])], Len(pieces)),
                LAMBDA q : q # <<>>)

\* What analyzeTranscript derives from the text alone: the early return's
\* test, the tokens (lowered, as strings), and the counts over them.
TextFacts(text) ==
  IF IsBlank(text) THEN [blank |-> TRUE]
  ELSE
    LET normalized == Normalized(text)
        tokens == SplitRuns(normalized, WhiteSpace)
        lowTokens == Listed([t \in DOMAIN tokens |-> ToLowerCase(tokens[t])],
                            Len(tokens))
        sentences == SentencesOf(normalized)
    IN  [blank |-> FALSE,
         wordCount |-> Len(tokens),
         fillerCount |-> FillerCount(ToLowerCase(normalized), lowTokens),
         added |-> AddedWords(lowTokens),
         lowWords |-> Listed([t \in DOMAIN tokens |-> Str(lowTokens[t])],
                             Len(tokens)),
         sentenceCount |-> Len(sentences),
         sentenceWords |->
           SumSeq(Listed([q \in DOMAIN sentences |->
                            Len(SplitRuns(sentences[q], WhiteSpace))],
                         Len(sentences))),
         syllables |->
           SumSeq(Listed([t \in DOMAIN tokens |-> SyllablesOf(lowTokens[t])],
                         Len(tokens)))]

\* the set rebuilt from the seed list at every call
SetAfterFromSeed(facts, set) ==
  IF facts.blank THEN set ELSE SEED_ACADEMIC_WORDS \cup facts.added

\* window.__ACADEMIC_SET__ after analyzeTranscript ran on a text with these
\* facts
SetAfter(facts, set) ==
  IF facts.blank THEN set ELSE set \cup facts.added

\* Math.round(Math.max(0, 206.835 - 1.015 * wps - 84.6 * (syllables / wc))),
\* computed in thousandths over the common denominator
Flesch(wordCount, sentenceCount, syllables) ==
  LET S == Max(1, sentenceCount)
      W == Max(1, wordCount)
      num == 206835 * S * W - 1015 * wordCount * W - 84600 * syllables * S
  IN  IF num <= 0 THEN 0 ELSE RoundDiv(num, 1000 * S * W)

\* Math.round(wordCount / Math.max(1, seconds / 60 || 1))
WordsPerMinute(wordCount, secs) ==
  IF secs <= 60 THEN wordCount ELSE RoundDiv(60 * wordCount, secs)

\* The value analyzeTranscript returns for a text with these facts: Null, or
\* the metrics record.  set: window.__ACADEMIC_SET__ before the call; pitch,
\* vol: the series the refs hold; secs: the `seconds` of the render whose
\* closure runs the call.  Ratios are pairs <<numerator, denominator>>;
\* volumeMean is in thousandths.
AnalysisFrom(facts, set, pitch, vol, secs) ==
  IF facts.blank THEN Null
  ELSE
    LET grown == SetAfter(facts, set)
        words == facts.lowWords
    IN  Some([wordCount |-> facts.wordCount,
              fillerCount |-> facts.fillerCount,
              fillerRate |-> <<facts.fillerCount, Max(1, facts.wordCount)>>,
              \* set.has(t.toLowerCase())
              academicMatches |->
                Cardinality({t \in DOMAIN words : words[t] \in grown}),
              ttr |-> <<Cardinality({words[t] : t \in DOMAIN words}),
                        Max(1, facts.wordCount)>>,
              avgSentenceLen |->
                IF facts.sentenceCount > 0
                  THEN <<facts.sentenceWords, facts.sentenceCount>>
                  ELSE <<0, 1>>,
              flesch |-> Flesch(facts.wordCount, facts.sentenceCount,
                                facts.syllables),
              pitchMean |->
                IF pitch = <<>> THEN 0 ELSE RoundDiv(SumSeq(pitch), Len(pitch)),
              volumeMean |->
                IF vol = <<>> THEN 0 ELSE RoundDiv(1000 * SumSeq(vol), Len(vol)),
              wordsPerMinute |-> WordsPerMinute(facts.wordCount, secs)])

\* the transcripts /api/transcribe answers with in the session runs
SessionTexts == {"", "So, basically um"}

\* the transcripts the analyzer is probed with: up to MaxPieces pieces,
\* written one after the other
Pieces == {"um", "Like,", "you know", "i mean", "so", " ", "\n", "method"}
RECURSIVE Concat(_)
Concat(ps) == IF ps = <<>> THEN "" ELSE Head(ps) \o Concat(Tail(ps))
ProbeTexts == {Concat(ps) : ps \in UNION {[1..n -> Pieces] : n \in 0..MaxPieces}}

\* the facts of the transcripts of the runs, derived once
KnownTexts ==
  ProbeTexts \cup SessionTexts \cup {SAMPLE_TRANSCRIPT, TEST_TRANSCRIPT_2}
KnownFacts == [text \in KnownTexts |-> TextFacts(text)] @@ <<>>
FactsOf(text) ==
  IF text \in DOMAIN KnownFacts THEN KnownFacts[text] ELSE TextFacts(text)

\* the value analyzeTranscript(text) returns
AnalysisOf(text, set, pitch, vol, secs) ==
  AnalysisFrom(FactsOf(text), set, pitch, vol, secs)

\* the transcribe handlers of the repository
HandlerVariants ==
  {"api/transcribe.js#1", "api/transcribe.js#2",
   "oral-assessment-prototype/api/transcribe.js", "part_001", "part_002"}

Methods == {"POST", "GET", "PUT"}

Init ==
  /\ micApi \in {"ok", "insecure", "unavailable"}
  /\ permissionDenied = FALSE
  /\ recording = FALSE
  /\ uiRecording = FALSE
  /\ seconds = 0
  /\ nextStart = 0
  /\ startPc = [i \in Starts |-> "idle"]
  /\ mrState = [i \in Starts |-> "none"]
  /\ stopEvent = [i \in Starts |-> FALSE]
  /\ mrStops = [i \in Starts |-> 0]
  /\ uploadsStarted = [i \in Starts |-> 0]
  /\ stopCalls = 0
  /\ timerActive = [i \in Starts |-> FALSE]
  /\ rafPending = [i \in Starts |-> FALSE]
  /\ ctxClosed = [i \in Starts |-> FALSE]
  /\ mediaRecorderRef = NoRef
  /\ timerRef = NoRef
  /\ rafRef = NoRef
  /\ audioCtxRef = NoRef
  /\ analyserRef = NoRef
  /\ volHistoryRef = <<>>
  /\ pitchHistoryRef = <<>>
  /\ volPushes = 0
  /\ pitchPushes = 0
  /\ audioUrl = NoRef
  /\ uploading = FALSE
  /\ transcript = ""
  /\ analysis = Null
  /\ questions = <<>>
  /\ sessPc = [s \in Sessions |-> "idle"]
  /\ sessText = [s \in Sessions |-> ""]
  /\ trResult = [s \in Sessions |-> "none"]
  /\ analyzerRuns = [s \in Sessions |-> 0]
  /\ qRequests = [s \in Sessions |-> 0]
  /\ nextFile = 0
  /\ lastWriter = NoRef
  /\ ACADEMIC_SET = SEED_ACADEMIC_WORDS        \* new Set(SEED_ACADEMIC_WORDS)
  /\ analyzed = Null
  /\ closureSeconds = [s \in Sessions |-> 0]
  /\ hVariant = "none"
  /\ hMethod = "POST"
  /\ hSize = 0
  /\ hPc = "idle"
  /\ hRead = "none"
  /\ hStatus = 0
  /\ hProviderCalls = 0
  /\ qhMethod = "POST"
  /\ qhPc = "idle"
  /\ qhStatus = 0
  /\ qhText = ""
  /\ qhQuestions = <<>>
  /\ tokenW = ""
  /\ tokenSyll = 0

(* --------------------------- feature series ---------------------------- *)
\* x.push(v); x.pop() when over the cap: drops the newest entry
PushCappedPop(series, v) ==
  LET a == Append(series, v)
  IN  IF Len(a) > HistoryCap THEN SubSeq(a, 1, Len(a) - 1) ELSE a

\* x.push(v); if (x.length > 300) x.shift();
PushCapped(series, v) ==
  LET a == Append(series, v)
  IN  IF Len(a) > HistoryCap THEN Tail(a) ELSE a

\* One run of analyzeLoop's body on the series, starting from the series
\* `vol` and `pitch` that hold the last of nVol and nPitch samples.  A
\* sample's value is its arrival number since the series was emptied, so
\* that a series tells which samples it holds and in which order.
\* hasPitch: lightPitchEstimate returned a (non-zero) frequency.
AnalyzeLoopSeries(vol, pitch, nVol, nPitch, hasPitch) ==
  /\ volHistoryRef' = PushCapped(vol, nVol + 1)
  /\ volPushes' = nVol + 1
  /\ IF hasPitch
       THEN /\ pitchHistoryRef' = PushCapped(pitch, nPitch + 1)
            /\ pitchPushes' = nPitch + 1
       ELSE /\ pitchHistoryRef' = pitch
            /\ pitchPushes' = nPitch

\* a requestAnimationFrame callback of chain i fires: analyzeLoop()
AnalyzeFrame(i, hasPitch) ==
  /\ rafPending[i]
  /\ analyserRef # NoRef
  /\ volPushes < MaxFrames
  /\ AnalyzeLoopSeries(volHistoryRef, pitchHistoryRef, volPushes, pitchPushes,
                       hasPitch)
  /\ rafRef' = i
  /\ UNCHANGED <<micApi, permissionDenied, recording, uiRecording, seconds,
                 nextStart, startPc, mrState, stopEvent, mrStops, uploadsStarted,
                 stopCalls, timerActive, rafPending, ctxClosed,
                 mediaRecorderRef, timerRef, audioCtxRef, analyserRef>>
  /\ UNCHANGED <<sessionVars, analyzerVars, closureSeconds,
                 handlerVars, questionVars, syllableVars>>

(* -------------------------- capture lifecycle -------------------------- *)
\* the Start button's onClick: startRecording up to the await
StartClick(i) ==
  /\ i = nextStart + 1
  /\ ~uiRecording                      \* disabled={recording}
  /\ nextStart' = i
  /\ closureSeconds' = [closureSeconds EXCEPT ![i] = seconds]
  /\ IF micApi = "ok"
       THEN /\ permissionDenied' = FALSE
            /\ startPc' = [startPc EXCEPT ![i] = "awaitMic"]
       ELSE /\ permissionDenied' = TRUE
            /\ startPc' = [startPc EXCEPT ![i] = "done"]
  /\ UNCHANGED <<micApi, recording, uiRecording, seconds, mrState, stopEvent,
                 mrStops, uploadsStarted, stopCalls, timerActive, rafPending,
                 ctxClosed, mediaRecorderRef, timerRef, rafRef, audioCtxRef,
                 analyserRef>>
  /\ UNCHANGED <<seriesVars, sessionVars, analyzerVars,
                 handlerVars, questionVars, syllableVars>>

\* getUserMedia resolves: the rest of startRecording
MicGranted(i, hasPitch) ==
  /\ startPc[i] = "awaitMic"
  /\ startPc' = [startPc EXCEPT ![i] = "done"]
  /\ mediaRecorderRef' = i
  /\ audioCtxRef' = i
  /\ analyserRef' = i
  /\ mrState' = [mrState EXCEPT ![i] = "recording"]      \* mr.start()
  /\ recording' = TRUE
  /\ seconds' = 0
  /\ timerRef' = i
  /\ timerActive' = [timerActive EXCEPT ![i] = TRUE]
  /\ AnalyzeLoopSeries(<<>>, <<>>, 0, 0, hasPitch)       \* analyzeLoop()
  /\ rafRef' = i
  /\ rafPending' = [rafPending EXCEPT ![i] = TRUE]
  /\ stopCalls' = 0
  /\ UNCHANGED <<micApi, permissionDenied, uiRecording, nextStart, stopEvent,
                 mrStops, uploadsStarted, ctxClosed>>
  /\ UNCHANGED <<sessionVars, analyzerVars, closureSeconds,
                 handlerVars, questionVars, syllableVars>>

\* getUserMedia rejects: the catch block
MicDenied(i, named) ==
  /\ startPc[i] = "awaitMic"
  /\ startPc' = [startPc EXCEPT ![i] = "done"]
  /\ permissionDenied' = (named \/ permissionDenied)
  /\ UNCHANGED <<micApi, recording, uiRecording, seconds, nextStart, mrState,
                 stopEvent, mrStops, uploadsStarted, stopCalls, timerActive,
                 rafPending, ctxClosed, mediaRecorderRef, timerRef, rafRef,
                 audioCtxRef, analyserRef>>
  /\ UNCHANGED <<seriesVars, sessionVars, analyzerVars, closureSeconds,
                 handlerVars, questionVars, syllableVars>>

\* stopRecording() without the test of mr.state: if (mr) mr.stop();
StopRecordingNoStateTest ==
  /\ IF mediaRecorderRef # NoRef
       THEN /\ mrState' = [mrState EXCEPT ![mediaRecorderRef] = "inactive"]
            /\ stopEvent' = [stopEvent EXCEPT ![mediaRecorderRef] = TRUE]
            /\ mrStops' = [mrStops EXCEPT ![mediaRecorderRef] = Min(CallsTracked, @ + 1)]
       ELSE UNCHANGED <<mrState, stopEvent, mrStops>>
  /\ stopCalls' = Min(CallsTracked, stopCalls + 1)
  /\ recording' = FALSE
  /\ timerActive' = IF timerRef # NoRef
                      THEN [timerActive EXCEPT ![timerRef] = FALSE]
                      ELSE timerActive
  /\ rafPending' = IF rafRef # NoRef
                     THEN [rafPending EXCEPT ![rafRef] = FALSE]
                     ELSE rafPending
  /\ ctxClosed' = IF audioCtxRef # NoRef
                    THEN [ctxClosed EXCEPT ![audioCtxRef] = TRUE]
                    ELSE ctxClosed

\* the body of stopRecording()
StopRecording ==
  /\ IF mediaRecorderRef # NoRef /\ mrState[mediaRecorderRef] = "recording"
       THEN /\ mrState' = [mrState EXCEPT ![mediaRecorderRef] = "inactive"]
            /\ stopEvent' = [stopEvent EXCEPT ![mediaRecorderRef] = TRUE]
            /\ mrStops' = [mrStops EXCEPT ![mediaRecorderRef] = Min(CallsTracked, @ + 1)]
       ELSE UNCHANGED <<mrState, stopEvent, mrStops>>
  /\ stopCalls' = Min(CallsTracked, stopCalls + 1)
  /\ recording' = FALSE
  /\ timerActive' = IF timerRef # NoRef
                      THEN [timerActive EXCEPT ![timerRef] = FALSE]
                      ELSE timerActive
  /\ rafPending' = IF rafRef # NoRef
                     THEN [rafPending EXCEPT ![rafRef] = FALSE]
                     ELSE rafPending
  /\ ctxClosed' = IF audioCtxRef # NoRef
                    THEN [ctxClosed EXCEPT ![audioCtxRef] = TRUE]
                    ELSE ctxClosed

\* the Stop button's onClick.  React commits the updates of a click before
\* the next event, so the buttons see setRecording(false) at once.
StopClick ==
  /\ uiRecording                       \* disabled={!recording}
  /\ StopRecording
  /\ uiRecording' = FALSE
  /\ UNCHANGED <<micApi, permissionDenied, seconds, nextStart,
                 startPc, uploadsStarted, mediaRecorderRef, timerRef, rafRef,
                 audioCtxRef, analyserRef>>
  /\ UNCHANGED <<seriesVars, sessionVars, analyzerVars, closureSeconds,
                 handlerVars, questionVars, syllableVars>>

\* the interval timer of invocation i fires: setSeconds(s => ...)
TimerTick(i) ==
  /\ timerActive[i]
  /\ uiRecording = recording           \* no render is left pending for a second
  /\ IF seconds + 1 >= CapSeconds
       THEN /\ StopRecording
            /\ seconds' = CapSeconds
       ELSE /\ seconds' = seconds + 1
            /\ UNCHANGED <<mrState, stopEvent, mrStops, stopCalls, recording,
                           timerActive, rafPending, ctxClosed>>
  /\ UNCHANGED <<micApi, permissionDenied, uiRecording, nextStart, startPc,
                 uploadsStarted, mediaRecorderRef, timerRef, rafRef,
                 audioCtxRef, analyserRef>>
  /\ UNCHANGED <<seriesVars, sessionVars, analyzerVars, closureSeconds,
                 handlerVars, questionVars, syllableVars>>

\* React commits the render scheduled by an update made outside a click (in
\* the getUserMedia continuation or in the interval callback): the buttons
\* see the current `recording`
Render ==
  /\ uiRecording # recording
  /\ uiRecording' = recording
  /\ UNCHANGED <<micApi, permissionDenied, recording, seconds, nextStart,
                 startPc, mrState, stopEvent, mrStops, uploadsStarted, stopCalls,
                 timerActive, rafPending, ctxClosed, mediaRecorderRef, timerRef,
                 rafRef, audioCtxRef, analyserRef>>
  /\ UNCHANGED <<seriesVars, sessionVars, analyzerVars, closureSeconds,
                 handlerVars, questionVars, syllableVars>>

(* ----------------------- upload / transcribe session ------------------- *)
\* uploadAndTranscribe up to its first await (the /api/transcribe fetch)
BeginUpload(s) ==
  /\ uploading' = TRUE
  /\ transcript' = ""
  /\ analysis' = Null
  /\ questions' = <<>>
  /\ lastWriter' = s
  /\ sessPc' = [sessPc EXCEPT ![s] = "awaitTranscribe"]
  /\ trResult' = [trResult EXCEPT ![s] = "pending"]
  /\ UNCHANGED <<sessText, analyzerRuns, qRequests>>

\* the recorder's stop event: mr.onstop
MrOnStop(i) ==
  /\ stopEvent[i]
  /\ stopEvent' = [stopEvent EXCEPT ![i] = FALSE]
  /\ uploadsStarted' = [uploadsStarted EXCEPT ![i] = Min(CallsTracked, @ + 1)]
  /\ audioUrl' = i
  /\ BeginUpload(i)
  /\ UNCHANGED <<micApi, permissionDenied, recording, uiRecording, seconds,
                 nextStart, startPc, mrState, mrStops, stopCalls, timerActive,
                 rafPending, ctxClosed, mediaRecorderRef, timerRef, rafRef,
                 audioCtxRef, analyserRef>>
  /\ UNCHANGED <<seriesVars, nextFile, analyzerVars, closureSeconds,
                 handlerVars, questionVars, syllableVars>>

\* the file input's onChange with a file chosen
FileChosen(k) ==
  /\ k = nextFile + 1
  /\ k <= MaxFiles
  /\ nextFile' = k
  /\ audioUrl' = FileSession(k)
  /\ closureSeconds' = [closureSeconds EXCEPT ![FileSession(k)] = seconds]
  /\ BeginUpload(FileSession(k))
  /\ UNCHANGED <<captureVars, seriesVars, analyzerVars,
                 handlerVars, questionVars, syllableVars>>

\* what one analyzeTranscript(text) call that returns `result` leaves in
\* window.__ACADEMIC_SET__
Analyze(text, result) ==
  /\ ACADEMIC_SET' = SetAfter(FactsOf(text), ACADEMIC_SET)
  /\ analyzed' = Some([text |-> text, before |-> ACADEMIC_SET, result |-> result])

\* uploadAndTranscribe from `const text = ...` to the second await
Transcribed(s, text) ==
  /\ sessText' = [sessText EXCEPT ![s] = text]
  /\ transcript' = text
  /\ \E r \in {AnalysisOf(text, ACADEMIC_SET, pitchHistoryRef, volHistoryRef,
                          closureSeconds[s])} :
       /\ Analyze(text, r)
       /\ analysis' = r
  /\ lastWriter' = s
  /\ analyzerRuns' = [analyzerRuns EXCEPT ![s] = Min(CallsTracked, @ + 1)]
  /\ qRequests' = [qRequests EXCEPT ![s] = Min(CallsTracked, @ + 1)]
  /\ sessPc' = [sessPc EXCEPT ![s] = "awaitQuestions"]
  /\ UNCHANGED uploading

\* /api/transcribe answers, with the test of res.ok left out: the body of
\* an error response has neither `transcript` nor `text`
TranscribeRepliesNoOkTest(s, ok, texts) ==
  /\ sessPc[s] = "awaitTranscribe"
  /\ trResult' = [trResult EXCEPT ![s] = IF ok THEN "ok" ELSE "failed"]
  /\ \E text \in (IF ok THEN texts ELSE {""}) : Transcribed(s, text)
  /\ UNCHANGED <<audioUrl, questions, nextFile>>
  /\ UNCHANGED <<captureVars, seriesVars, closureSeconds,
                 handlerVars, questionVars, syllableVars>>

\* /api/transcribe answers (ok: res.ok; texts: the values the body can give
\* j.transcript || j.text || ""): uploadAndTranscribe from the first await to
\* the second, or through the catch and finally blocks
TranscribeReplies(s, ok, texts) ==
  /\ sessPc[s] = "awaitTranscribe"
  /\ IF ok
       THEN /\ trResult' = [trResult EXCEPT ![s] = "ok"]
            /\ \E text \in texts : Transcribed(s, text)
       ELSE /\ trResult' = [trResult EXCEPT ![s] = "failed"]
            /\ sessPc' = [sessPc EXCEPT ![s] = "done"]
            /\ uploading' = FALSE
            /\ UNCHANGED <<sessText, transcript, analysis, lastWriter,
                           analyzerRuns, qRequests, analyzerVars>>
  /\ UNCHANGED <<audioUrl, questions, nextFile>>
  /\ UNCHANGED <<captureVars, seriesVars, closureSeconds,
                 handlerVars, questionVars, syllableVars>>

\* the /api/transcribe fetch or res.json() throws: catch and finally
TranscribeThrows(s) ==
  /\ sessPc[s] = "awaitTranscribe"
  /\ trResult' = [trResult EXCEPT ![s] = "failed"]
  /\ sessPc' = [sessPc EXCEPT ![s] = "done"]
  /\ uploading' = FALSE
  /\ UNCHANGED <<audioUrl, transcript, analysis, questions, sessText,
                 analyzerRuns, qRequests, nextFile, lastWriter>>
  /\ UNCHANGED <<captureVars, seriesVars, analyzerVars, closureSeconds,
                 handlerVars, questionVars, syllableVars>>

\* the bodies /api/questions can answer with: an object with a `questions`
\* array, a bare array, anything else
QuestionBodies == {"object", "array", "other"}
\* the question lists the model lets a body carry
QuestionLists == {<<>>, <<"q1", "q2", "q3", "q4">>}

\* /api/questions answers (outcome "ok": qRes.ok, "notOk"), or its fetch or
\* qRes.json() throws ("thrown"): the rest of uploadAndTranscribe
QuestionsReplies(s, outcome) ==
  /\ sessPc[s] = "awaitQuestions"
  /\ sessPc' = [sessPc EXCEPT ![s] = "done"]
  /\ IF outcome = "ok"
       THEN /\ \E body \in QuestionBodies, list \in QuestionLists :
                 questions' = IF body = "other" THEN <<>> ELSE list
            /\ lastWriter' = s
       ELSE UNCHANGED <<questions, lastWriter>>
  /\ uploading' = FALSE
  /\ UNCHANGED <<audioUrl, transcript, analysis, sessText, trResult,
                 analyzerRuns, qRequests, nextFile>>
  /\ UNCHANGED <<captureVars, seriesVars, analyzerVars, closureSeconds,
                 handlerVars, questionVars, syllableVars>>

\* the "Use sample transcript" button's onClick
SampleClick ==
  /\ transcript' = SAMPLE_TRANSCRIPT
  /\ \E r \in {AnalysisOf(SAMPLE_TRANSCRIPT, ACADEMIC_SET, pitchHistoryRef,
                          volHistoryRef, seconds)} :
       /\ Analyze(SAMPLE_TRANSCRIPT, r)
       /\ analysis' = r
  /\ lastWriter' = NoRef
  /\ UNCHANGED <<audioUrl, uploading, questions, sessPc, sessText, trResult,
                 analyzerRuns, qRequests, nextFile>>
  /\ UNCHANGED <<captureVars, seriesVars, closureSeconds,
                 handlerVars, questionVars, syllableVars>>

\* the "Run internal tests" button's onClick: runInternalTests()
RunInternalTests ==
  LET mid == SetAfter(FactsOf(SAMPLE_TRANSCRIPT), ACADEMIC_SET)
  IN  /\ ACADEMIC_SET' = SetAfter(FactsOf(TEST_TRANSCRIPT_2), mid)
      /\ analyzed' = Some([text |-> TEST_TRANSCRIPT_2, before |-> mid,
                           result |-> AnalysisOf(TEST_TRANSCRIPT_2, mid,
                                                 pitchHistoryRef, volHistoryRef,
                                                 seconds)])
      /\ UNCHANGED <<captureVars, seriesVars, sessionVars, closureSeconds,
                 handlerVars, questionVars, syllableVars>>

\* The capture lifecycle: every startRecording invocation, the Stop button,
\* the recorders' stop events, and the interval timer of the first capture
\* (the later captures are stopped within their first second).  The first
\* analysis frame finds no pitch here; the series are followed in SpecSeries.
NextCapture ==
  \/ \E i \in Starts : StartClick(i)
  \/ \E i \in Starts : MicGranted(i, FALSE)
  \/ \E i \in Starts, named \in BOOLEAN : MicDenied(i, named)
  \/ StopClick
  \/ TimerTick(1)
  \/ \E i \in Starts : MrOnStop(i)
  \/ Render

SpecCapture == Init /\ [][NextCapture]_vars

\* The Feature Extractor during one capture: the first startRecording, the
\* animation frames of its analyzeLoop chain, and the Stop button.
NextSeries ==
  \/ StartClick(1)
  \/ \E hasPitch \in BOOLEAN : MicGranted(1, hasPitch)
  \/ \E hasPitch \in BOOLEAN : AnalyzeFrame(1, hasPitch)
  \/ StopClick
  \/ Render

SpecSeries == Init /\ [][NextSeries]_vars

\* Upload / transcribe sessions: one capture stopped by the Stop button, the
\* file uploads, the provider replies and the sample button.
NextSession ==
  \/ StartClick(1)
  \/ \E hasPitch \in BOOLEAN : MicGranted(1, hasPitch)
  \/ StopClick
  \/ Render
  \/ MrOnStop(1)
  \/ \E k \in 1..MaxFiles : FileChosen(k)
  \/ \E s \in Sessions, ok \in BOOLEAN : TranscribeReplies(s, ok, SessionTexts)
  \/ \E s \in Sessions : TranscribeThrows(s)
  \/ \E s \in Sessions, outcome \in {"ok", "notOk", "thrown"} :
       QuestionsReplies(s, outcome)
  \/ SampleClick

SpecSession == Init /\ [][NextSession]_vars

\* One timed capture and its session: the first startRecording, the ticks of
\* its interval timer, the Stop button, the recorder's stop event and the
\* transcription of its audio.  No other capture is started, so that from
\* the stop on `seconds` is the elapsed duration of this capture.
NextRate ==
  \/ StartClick(1)
  \/ MicGranted(1, FALSE)
  \/ TimerTick(1)
  \/ StopClick
  \/ Render
  \/ MrOnStop(1)
  \/ \E ok \in BOOLEAN : TranscribeReplies(1, ok, SessionTexts)

SpecRate == Init /\ [][NextRate]_vars

\* The Analyzer: one uploaded file whose transcription is any of the probe
\* transcripts, the sample button and the internal tests, in any order.
NextAnalyzer ==
  \/ FileChosen(1)
  \/ \E ok \in BOOLEAN : TranscribeReplies(FileSession(1), ok, ProbeTexts)
  \/ SampleClick
  \/ RunInternalTests

SpecAnalyzer == Init /\ [][NextAnalyzer]_vars

(* ------------------------ /api/transcribe handlers --------------------- *)
\* does the variant test the payload read for emptiness before it goes on
\* if (!arrayBuffer || arrayBuffer.byteLength === 0) return ... 400
TestsEmpty_Api1 == TRUE
\* if (!arrayBuffer || arrayBuffer.byteLength === 0) return ... 400
TestsEmpty_Api2 == TRUE
\* Buffer.concat(buffers) goes into the form as it is
TestsEmpty_Prototype == FALSE
\* if (buffer.length === 0) return res.status(400)
TestsEmpty_Part001 == TRUE
\* if (!buffer || buffer.length === 0) return res.status(400)
TestsEmpty_Part002 == TRUE

TestsEmpty(v) ==
  CASE v = "api/transcribe.js#1" -> TestsEmpty_Api1
    [] v = "api/transcribe.js#2" -> TestsEmpty_Api2
    [] v = "oral-assessment-prototype/api/transcribe.js" -> TestsEmpty_Prototype
    [] v = "part_001" -> TestsEmpty_Part001
    [] v = "part_002" -> TestsEmpty_Part002

\* the provider is called through the OpenAI SDK, which throws on an error
\* response; the prototype calls it with fetch and tests openaiRes.ok
UsesFetch(v) == v = "oral-assessment-prototype/api/transcribe.js"

\* one of the handlers is deployed as /api/transcribe
Deploy(v) ==
  /\ hVariant = "none"
  /\ hVariant' = v
  /\ UNCHANGED <<hMethod, hSize, hPc, hRead, hStatus, hProviderCalls>>
  /\ UNCHANGED <<captureVars, seriesVars, sessionVars, analyzerVars,
                 closureSeconds, questionVars, syllableVars>>

\* a request arrives: the handler up to its first await
HandlerInvoke(method, size) ==
  /\ hVariant # "none"
  /\ hPc \in {"idle", "done"}
  /\ hMethod' = method
  /\ hSize' = size
  /\ hRead' = "none"
  /\ hProviderCalls' = 0
  /\ IF method # "POST"
       THEN hStatus' = 405 /\ hPc' = "done"
       ELSE hStatus' = 0 /\ hPc' = "awaitBody"
  /\ UNCHANGED hVariant
  /\ UNCHANGED <<captureVars, seriesVars, sessionVars, analyzerVars,
                 closureSeconds, questionVars, syllableVars>>

\* the payload has been read, or reading it threw: the handler up to the
\* provider call
BodyRead(threw) ==
  /\ hPc = "awaitBody"
  /\ IF threw
       THEN hRead' = "failed" /\ hStatus' = 500 /\ hPc' = "done"
                              /\ UNCHANGED hProviderCalls
       ELSE /\ hRead' = "ok"
            /\ IF TestsEmpty(hVariant) /\ hSize = 0
                 THEN hStatus' = 400 /\ hPc' = "done" /\ UNCHANGED hProviderCalls
                 ELSE /\ hProviderCalls' = hProviderCalls + 1
                      /\ hPc' = "awaitProvider"
                      /\ UNCHANGED hStatus
  /\ UNCHANGED <<hVariant, hMethod, hSize>>
  /\ UNCHANGED <<captureVars, seriesVars, sessionVars, analyzerVars,
                 closureSeconds, questionVars, syllableVars>>

\* the provider answers ("ok", "notOk") or the call throws ("thrown"): the
\* rest of the handler
ProviderReplies(outcome) ==
  /\ hPc = "awaitProvider"
  /\ outcome = "notOk" => UsesFetch(hVariant)
  /\ hStatus' = IF outcome = "ok" THEN 200 ELSE 500
  /\ hPc' = "done"
  /\ UNCHANGED <<hVariant, hMethod, hSize, hRead, hProviderCalls>>
  /\ UNCHANGED <<captureVars, seriesVars, sessionVars, analyzerVars,
                 closureSeconds, questionVars, syllableVars>>

NextHandler ==
  \/ \E v \in HandlerVariants : Deploy(v)
  \/ \E method \in Methods, size \in 0..MaxPayload : HandlerInvoke(method, size)
  \/ \E threw \in BOOLEAN : BodyRead(threw)
  \/ \E outcome \in {"ok", "notOk", "thrown"} : ProviderReplies(outcome)

SpecHandler == Init /\ [][NextHandler]_vars

(* ------------------------- /api/questions handler ---------------------- *)
Digits == {"0", "1", "2", "3", "4", "5", "6", "7", "8", "9"}

\* the most questions a response carries: .slice(0, 4)
QuestionsKept == 4

\* s.split(/\n/): the pieces between the line feeds, the empty ones too
SplitLines(cs) ==
  LET feeds == {i \in DOMAIN cs : cs[i] = "\n"}
      \* the n-th piece starts after the (n-1)-th feed and ends before the n-th
      FeedAt(n) == IF n = 0 THEN 0
                   ELSE IF n > Cardinality(feeds) THEN Len(cs) + 1
                   ELSE CHOOSE i \in feeds : Cardinality({j \in feeds : j < i}) = n - 1
  IN  Listed([n \in 1..(Cardinality(feeds) + 1) |->
                SubSeq(cs, FeedAt(n - 1) + 1, FeedAt(n) - 1)],
             Cardinality(feeds) + 1)

\* s.replace(/^\d+\.?\s*/, ""), with the trim() left out
StripOrdinalOnly(cs) ==
  LET digits == CHOOSE k \in 0..Len(cs) :
                  /\ \A j \in 1..k : cs[j] \in Digits
                  /\ (k = Len(cs) \/ cs[k + 1] \notin Digits)
      dotted == IF digits + 1 <= Len(cs) /\ cs[digits + 1] = "."
                  THEN digits + 1 ELSE digits
      spaced == CHOOSE k \in dotted..Len(cs) :
                  /\ \A j \in (dotted + 1)..k : cs[j] \in WhiteSpace
                  /\ (k = Len(cs) \/ cs[k + 1] \notin WhiteSpace)
  IN  IF digits = 0 THEN cs ELSE SubSeq(cs, spaced + 1, Len(cs))

\* s.replace(/^\d+\.?\s*/, "").trim()
StripOrdinal(cs) == Trim(StripOrdinalOnly(cs))

\* text.split(/\n/).map(s => s.trim()).filter(Boolean)
\*     .map(s => s.replace(/^\d+\.?\s*/, "").trim()).slice(0, 4)
QuestionsOf(text) ==
  LET pieces == SplitLines(Chars(text))
      trimmed == Listed([p \in DOMAIN pieces |-> Trim(pieces[p])], Len(pieces))
      kept == SelectSeq(trimmed, LAMBDA q : q # <<>>)
      stripped == Listed([q \in DOMAIN kept |-> Str(StripOrdinal(kept[q]))],
                         Len(kept))
  IN  SubSeq(stripped, 1, Min(QuestionsKept, Len(stripped)))

\* the lines the model lets the provider write, and its texts: up to
\* MaxLines of them, each followed by a line feed but the last
ProviderLines == {"", "1. Why?", "12 How? ", "3.", " What if 2?"}
RECURSIVE JoinLines(_)
JoinLines(ls) ==
  IF ls = <<>> THEN ""
  ELSE IF Len(ls) = 1 THEN ls[1]
  ELSE ls[1] \o "\n" \o JoinLines(Tail(ls))
ProviderTexts ==
  {JoinLines(ls) : ls \in UNION {[1..n -> ProviderLines] : n \in 0..MaxLines}}

\* a request arrives: the handler up to the await of the body
QuestionsInvoke(method) ==
  /\ qhPc \in {"idle", "done"}
  /\ qhMethod' = method
  /\ qhText' = ""
  /\ qhQuestions' = <<>>
  /\ IF method # "POST"
       THEN qhStatus' = 405 /\ qhPc' = "done"
       ELSE qhStatus' = 0 /\ qhPc' = "awaitBody"
  /\ UNCHANGED <<captureVars, seriesVars, sessionVars, analyzerVars,
                 closureSeconds, handlerVars, syllableVars>>

\* the body is there (req.body, or the stream read and parsed), or reading
\* or parsing it threw: the handler up to the await of the provider's fetch
QuestionsBodyRead(threw) ==
  /\ qhPc = "awaitBody"
  /\ IF threw
       THEN qhStatus' = 500 /\ qhPc' = "done"
       ELSE qhPc' = "awaitProvider" /\ UNCHANGED qhStatus
  /\ UNCHANGED <<qhMethod, qhText, qhQuestions>>
  /\ UNCHANGED <<captureVars, seriesVars, sessionVars, analyzerVars,
                 closureSeconds, handlerVars, syllableVars>>

\* the provider answers ("ok": openaiRes.ok and a body with the content
\* `text`; "notOk"), or fetch or openaiRes.json() throws ("thrown"): the
\* rest of the handler
QuestionsProviderReplies(outcome, text) ==
  /\ qhPc = "awaitProvider"
  /\ qhPc' = "done"
  /\ IF outcome = "ok"
       THEN /\ qhText' = text
            /\ qhQuestions' = QuestionsOf(text)
            /\ qhStatus' = 200
       ELSE /\ qhStatus' = 500
            /\ UNCHANGED <<qhText, qhQuestions>>
  /\ UNCHANGED qhMethod
  /\ UNCHANGED <<captureVars, seriesVars, sessionVars, analyzerVars,
                 closureSeconds, handlerVars, syllableVars>>

NextQuestions ==
  \/ \E method \in Methods : QuestionsInvoke(method)
  \/ \E threw \in BOOLEAN : QuestionsBodyRead(threw)
  \/ \E outcome \in {"ok", "notOk", "thrown"} :
       IF outcome = "ok"
         THEN \E text \in ProviderTexts : QuestionsProviderReplies(outcome, text)
         ELSE QuestionsProviderReplies(outcome, "")

SpecQuestions == Init /\ [][NextQuestions]_vars

(* --------------------------- syllable estimate ------------------------- *)
\* the characters the model writes tokens with, and the tokens: tokens are
\* never empty (filter(Boolean))
TokenChars == {"a", "e", "y", "b", "E", "'"}
RECURSIVE Tokens(_)
Tokens(n) ==
  IF n = 0 THEN {""}
  ELSE {t \o c : t \in Tokens(n - 1), c \in TokenChars}
SyllableTokens == UNION {Tokens(n) : n \in 1..MaxTokenLen}

\* the reduce callback runs on token w
SyllableStep(w) ==
  /\ tokenW' = w
  /\ tokenSyll' = SyllablesOf(ToLowerCase(Chars(w)))
  /\ UNCHANGED <<captureVars, seriesVars, sessionVars, analyzerVars,
                 closureSeconds, handlerVars, questionVars>>

NextSyllables == \E w \in SyllableTokens : SyllableStep(w)

SpecSyllables == Init /\ [][NextSyllables]_vars

\* every operation of the page and of the deployed function
Next ==
  \/ \E i \in Starts : StartClick(i)
  \/ \E i \in Starts, hasPitch \in BOOLEAN : MicGranted(i, hasPitch)
  \/ \E i \in Starts, named \in BOOLEAN : MicDenied(i, named)
  \/ StopClick
  \/ \E i \in Starts : TimerTick(i)
  \/ \E i \in Starts, hasPitch \in BOOLEAN : AnalyzeFrame(i, hasPitch)
  \/ \E i \in Starts : MrOnStop(i)
  \/ Render
  \/ \E k \in 1..MaxFiles : FileChosen(k)
  \/ \E s \in Sessions, ok \in BOOLEAN : TranscribeReplies(s, ok, KnownTexts)
  \/ \E s \in Sessions : TranscribeThrows(s)
  \/ \E s \in Sessions, outcome \in {"ok", "notOk", "thrown"} :
       QuestionsReplies(s, outcome)
  \/ SampleClick
  \/ RunInternalTests
  \/ NextHandler
  \/ NextQuestions
  \/ NextSyllables

Spec == Init /\ [][Next]_vars

(* ----------------------------- properties ------------------------------ *)
\* the teardown of stopRecording is in effect on everything the refs hold
Torn ==
  /\ ~recording
  /\ mediaRecorderRef # NoRef => mrState[mediaRecorderRef] # "recording"
  /\ timerRef # NoRef => ~timerActive[timerRef]
  /\ rafRef # NoRef => ~rafPending[rafRef]
  /\ audioCtxRef # NoRef => ctxClosed[audioCtxRef]

\* C2: capture teardown is idempotent.  No recorder is ever stopped more than
\* once and no recorder's stop starts more than one upload (each mr.stop() is
\* followed by one queued stop event and then one upload); every invocation
\* of stopRecording leaves the recorder of the capture stopped exactly once,
\* recording false, the timer cleared, the pending animation frame cancelled
\* and the audio context closed; and an invocation in a state where that
\* teardown is already in effect (a second, third, ... invocation, by the
\* Stop button or by the 600-second auto-stop) changes nothing.
C2_TeardownIdempotent ==
  /\ [](\A r \in Starts :
          /\ mrStops[r] <= 1
          /\ uploadsStarted[r] <= 1
          /\ mrStops[r] = uploadsStarted[r] + (IF stopEvent[r] THEN 1 ELSE 0))
  /\ [][ (stopCalls' # stopCalls /\ stopCalls' # 0) =>
           /\ Torn'
           /\ mrStops'[mediaRecorderRef'] = 1
           /\ Torn => UNCHANGED <<mrState, stopEvent, mrStops, uploadsStarted,
                                  recording, timerActive, rafPending, ctxClosed,
                                  mediaRecorderRef, timerRef, rafRef,
                                  audioCtxRef, analyserRef, seriesVars,
                                  sessionVars>> ]_vars

\* one capture session in which stopRecording ran twice (the auto-stop at the
\* cap, then the Stop button of the not yet re-rendered page) and whose audio
\* was uploaded once
C2_Witness ==
  /\ nextStart = 1
  /\ stopCalls = 2
  /\ seconds = CapSeconds
  /\ mrStops[1] = 1
  /\ uploadsStarted[1] = 1

\* C3: at most one capture session is active at any time: never more than
\* one recorder recording, one interval timer running or one analysis loop
\* scheduled, and once stopRecording has run no recorder is still recording
\* and no timer is still running.
C3_SingleActiveCapture ==
  /\ Cardinality({i \in Starts : mrState[i] = "recording"}) <= 1
  /\ Cardinality({i \in Starts : timerActive[i]}) <= 1
  /\ Cardinality({i \in Starts : rafPending[i]}) <= 1
  /\ stopCalls >= 1 =>
       \A i \in Starts : mrState[i] # "recording" /\ ~timerActive[i]

\* C4: the seconds counter never exceeds 600, and the timer tick that brings
\* it to 600 runs stopRecording so that the capture is over: recording is
\* false, no recorder is recording any longer, no interval timer is left
\* running, and every recorder that was recording has its stop event
\* queued, which uploads its audio with no user action.
C4_HardCap ==
  /\ [](seconds <= CapSeconds)
  /\ [][ (seconds < CapSeconds /\ seconds' = CapSeconds) =>
           /\ ~recording'
           /\ \A i \in Starts :
                /\ mrState'[i] # "recording"
                /\ ~timerActive'[i]
                /\ mrState[i] = "recording" => stopEvent'[i] ]_vars

\* C5: every transcribe handler variant validates before it contacts the
\* provider: a request that is not a POST is answered 405, a POST whose
\* payload was read and is empty is answered 400, and the provider is called
\* for neither: only for a POST with a non-empty payload.
C5_ValidatesBeforeProvider ==
  /\ (hPc # "idle" /\ hMethod # "POST") => (hStatus = 405 /\ hProviderCalls = 0)
  /\ (hMethod = "POST" /\ hSize = 0 /\ hRead = "ok") =>
       (hStatus = 400 /\ hProviderCalls = 0)
  /\ hProviderCalls >= 1 => (hMethod = "POST" /\ hSize > 0)

\* the samples n - k + 1 .. n, in arrival order
LastArrivals(n, k) == [j \in 1..k |-> n - k + j]

\* C6: neither series ever holds more than 300 entries; a series holds the
\* min(n, 300) most recent of the n samples pushed, in arrival order (once at
\* the cap, each append drops the oldest).
C6_SeriesCapped ==
  /\ Len(volHistoryRef) <= HistoryCap
  /\ Len(pitchHistoryRef) <= HistoryCap
  /\ volHistoryRef = LastArrivals(volPushes, Min(volPushes, HistoryCap))
  /\ pitchHistoryRef = LastArrivals(pitchPushes, Min(pitchPushes, HistoryCap))

\* both series are at the cap and have dropped entries
C6_Witness ==
  /\ Len(volHistoryRef) = HistoryCap
  /\ volPushes > HistoryCap
  /\ Len(pitchHistoryRef) = HistoryCap
  /\ pitchPushes > HistoryCap

\* C1: the question-generation request of a session is issued only once its
\* transcription request has returned a success response and the Analyzer
\* has run, and at most once; a session whose transcription failed (non-ok
\* response or thrown error) never issues it, is over, and its failing step
\* writes neither transcript, metrics, questions nor the Vocabulary Set: as
\* long as no other handler writes them they stay as the session cleared
\* them.
C1_QuestionsAfterTranscription ==
  /\ [](\A s \in Sessions :
          /\ qRequests[s] <= 1
          /\ qRequests[s] >= 1 => (trResult[s] = "ok" /\ analyzerRuns[s] >= 1)
          /\ sessPc[s] = "awaitQuestions" => qRequests[s] = 1
          /\ trResult[s] = "failed" => (qRequests[s] = 0 /\ sessPc[s] = "done")
          /\ (trResult[s] = "failed" /\ lastWriter = s) =>
               (transcript = "" /\ analysis = Null /\ questions = <<>>))
  /\ [][\A s \in Sessions :
          (trResult[s] # "failed" /\ trResult'[s] = "failed") =>
            UNCHANGED <<transcript, analysis, questions, ACADEMIC_SET,
                        qRequests, analyzerRuns>>]_vars

\* the first file's transcription failed and left the cleared state; the
\* second file's succeeded, its question request was issued and answered
C1_Witness ==
  /\ trResult[FileSession(1)] = "failed"
  /\ qRequests[FileSession(1)] = 0
  /\ trResult[FileSession(2)] = "ok"
  /\ qRequests[FileSession(2)] = 1
  /\ sessPc[FileSession(2)] = "done"
  /\ transcript # ""
  /\ questions # <<>>

\* the lowered tokens of the latest analyzed text that are in `set`
TokensIn(set) ==
  LET words == FactsOf(analyzed[1].text).lowWords
  IN  {t \in DOMAIN words : words[t] \in set}

\* C7: the Vocabulary Set only grows: every step leaves it a superset of
\* what it was, so it always contains the seed list and, after a call, all
\* that it held before the call; and a call counts as academic matches at
\* least the tokens that are words the set held before the call, the words
\* added by earlier calls among them.
C7_VocabularyMonotone ==
  /\ [](SEED_ACADEMIC_WORDS \subseteq ACADEMIC_SET)
  /\ [][ACADEMIC_SET \subseteq ACADEMIC_SET']_vars
  /\ [](analyzed # Null =>
          /\ analyzed[1].before \subseteq ACADEMIC_SET
          /\ analyzed[1].result # Null =>
               analyzed[1].result[1].academicMatches
                 >= Cardinality(TokensIn(analyzed[1].before)))

\* the latest call matched a token that is a word an earlier call added
C7_Witness ==
  /\ analyzed # Null
  /\ analyzed[1].result # Null
  /\ TokensIn(analyzed[1].before \ SEED_ACADEMIC_WORDS) # {}
  /\ analyzed[1].result[1].academicMatches >= 1

\* C8: analysed against the seed Vocabulary Set, the sample transcript gets
\* word count 17, a filler count of at least 2, and its tokens "data",
\* "method" and "variables." are counted as academic matches (a token is
\* counted when the set, as the call leaves it, has the lowered token).
C8_SampleMetrics ==
  (/\ analyzed # Null
   /\ analyzed[1].text = SAMPLE_TRANSCRIPT
   /\ analyzed[1].before = SEED_ACADEMIC_WORDS) =>
    /\ analyzed[1].result # Null
    /\ analyzed[1].result[1].wordCount = 17
    /\ analyzed[1].result[1].fillerCount >= 2
    /\ {"data", "method", "variables."} \subseteq ACADEMIC_SET

\* the occurrences of fillers in a text: <<f, t>> for token t being the
\* single-word filler f, <<f, j>> for the phrase f starting at character j
\* of the lowered normalized text
FillerOccurrences(text) ==
  LET normalized == Normalized(text)
      lowered == ToLowerCase(normalized)
      tokens == SplitRuns(lowered, WhiteSpace)
      IsPhrase(f) == \E k \in 1..Len(FILLER_WORDS[f]) :
                       SubSeq(FILLER_WORDS[f], k, k) = " "
  IN  {<<f, t>> \in (DOMAIN FILLER_WORDS) \X (DOMAIN tokens) :
         ~IsPhrase(f) /\ tokens[t] = Chars(FILLER_WORDS[f])}
      \cup
      {<<f, j>> \in (DOMAIN FILLER_WORDS) \X (DOMAIN lowered) :
         IsPhrase(f) /\ StartsWithAt(lowered, Chars(FILLER_WORDS[f]), j)}
KnownOccurrences ==
  [text \in KnownTexts |-> IF IsBlank(text) THEN {} ELSE FillerOccurrences(text)]
    @@ <<>>

\* C9: for every transcript the Analyzer returns a record for, the filler
\* count is between 0 and the word count, the filler rate is that count
\* over the (positive) word count, so within [0, 1], and the count is the
\* number of distinct filler occurrences: none is counted twice.
C9_FillerCountBounded ==
  (analyzed # Null /\ analyzed[1].result # Null) =>
    LET r == analyzed[1].result[1]
    IN  /\ 0 <= r.fillerCount
        /\ r.fillerCount <= r.wordCount
        /\ r.wordCount >= 1
        /\ r.fillerRate = <<r.fillerCount, r.wordCount>>
        /\ r.fillerCount = Cardinality(KnownOccurrences[analyzed[1].text])

\* a transcript with a single-word filler and a phrase: 2 fillers, 3 words
C9_Witness ==
  /\ analyzed # Null
  /\ analyzed[1].text = "um you know"
  /\ analyzed[1].result # Null
  /\ analyzed[1].result[1].fillerCount = 2
  /\ analyzed[1].result[1].wordCount = 3

\* the text has no character other than white space
OnlyWhiteSpace(text) ==
  \A i \in 1..Len(text) : SubSeq(text, i, i) \in WhiteSpace

MetricFields ==
  {"wordCount", "fillerCount", "fillerRate", "academicMatches", "ttr",
   "avgSentenceLen", "flesch", "pitchMean", "volumeMean", "wordsPerMinute"}

\* C10: for a transcript that is empty or only white space the Analyzer
\* returns the absent result and leaves the Vocabulary Set as it was; for
\* every other transcript it returns a record with all ten metrics.
C10_NullForBlank ==
  analyzed # Null =>
    IF OnlyWhiteSpace(analyzed[1].text)
      THEN /\ analyzed[1].result = Null
           /\ ACADEMIC_SET = analyzed[1].before
      ELSE /\ analyzed[1].result # Null
           /\ DOMAIN analyzed[1].result[1] = MetricFields

\* a white-space transcript analysed after the set had grown: no result,
\* and the grown set kept
C10_Witness ==
  /\ analyzed # Null
  /\ analyzed[1].text = " \n"
  /\ analyzed[1].result = Null
  /\ analysis = Null
  /\ analyzed[1].before # SEED_ACADEMIC_WORDS
  /\ ACADEMIC_SET = analyzed[1].before

\* the lines of a text that are not blank, trimmed, in order
NonBlankLines(text) ==
  SelectSeq(LET pieces == SplitLines(Chars(text))
            IN  Listed([p \in DOMAIN pieces |-> Trim(pieces[p])], Len(pieces)),
            LAMBDA q : q # <<>>)

\* C11: a 200 response of the question handler carries at most 4 questions:
\* the first non-blank lines of the provider's text, in order, each trimmed
\* and with its leading ordinal (digits, optional dot, white space)
\* stripped; and no question carried is the empty string.
C11_QuestionsParsed ==
  (qhPc = "done" /\ qhStatus = 200) =>
    LET lines == NonBlankLines(qhText)
    IN  /\ Len(qhQuestions) <= 4
        /\ Len(qhQuestions) = Min(4, Len(lines))
        /\ \A i \in DOMAIN qhQuestions :
             /\ qhQuestions[i] = Str(StripOrdinal(lines[i]))
             /\ qhQuestions[i] # ""

\* C12: the metrics record of a file upload has pitch mean 0 and loudness
\* mean 0: whenever the transcription of a file's session succeeds and the
\* Analyzer returns a record for it, that record has both means 0, whatever
\* recordings and uploads came before in the browser session.
C12_UploadHasEmptySeries ==
  [][\A k \in 1..MaxFiles :
       (/\ sessPc[FileSession(k)] = "awaitTranscribe"
        /\ sessPc'[FileSession(k)] = "awaitQuestions"
        /\ analysis' # Null) =>
         (analysis'[1].pitchMean = 0 /\ analysis'[1].volumeMean = 0)]_vars

\* C13: the speaking rate in the record of a recording is
\* round(wordCount / max(1, elapsed / 60)) for the elapsed duration of that
\* capture: when the transcription of the capture's audio succeeds and the
\* Analyzer returns a record, its wordsPerMinute is the word count over the
\* minutes the seconds counter shows (the counter stands, from the stop on,
\* at the elapsed duration of the only capture).
C13_RateOfThisCapture ==
  [][(/\ sessPc[1] = "awaitTranscribe"
      /\ sessPc'[1] = "awaitQuestions"
      /\ analysis' # Null) =>
       analysis'[1].wordsPerMinute =
         RoundDiv(60 * analysis'[1].wordCount, Max(60, seconds))]_vars

\* the maximal runs of vowels in a word: the positions where one starts
MaximalVowelRuns(word) ==
  {i \in DOMAIN word : word[i] \in Vowels /\ (i = 1 \/ word[i - 1] \notin Vowels)}

\* C14: the syllable count of a token is the number of maximal runs of
\* vowels (a, e, i, o, u, y) in its lowercase-letters-only form, less 1 but
\* not below 1 when that form ends in "e", and at least 1; so a run of
\* three or more vowels counts as one syllable.
C14_SyllablesAreVowelRuns ==
  tokenW # "" =>
    LET form == SelectSeq(ToLowerCase(Chars(tokenW)), LAMBDA c : c \in Letters)
        runs == Cardinality(MaximalVowelRuns(form))
    IN  tokenSyll =
          Max(1, IF form # <<>> /\ form[Len(form)] = "e"
                   THEN Max(1, runs - 1) ELSE runs)

\* the sessions whose uploadAndTranscribe is at one of its awaits
InFlight == {s \in Sessions : sessPc[s] \in {"awaitTranscribe", "awaitQuestions"}}

\* C15: under any interleaving of upload/transcribe sessions, the uploading
\* flag is true as long as some session is in flight, and when none is, what
\* is displayed comes from the most recently started session (the one whose
\* audio is shown): the last session handler that wrote the transcript, the
\* metrics or the questions is a handler of that session.
C15_SessionsIsolated ==
  /\ InFlight # {} => uploading
  /\ (InFlight = {} /\ audioUrl # NoRef /\ lastWriter # NoRef) =>
       lastWriter = audioUrl

====
